---- MODULE Spec2Model ----
(***************************************************************************)
(* Model of the Aladdin table estimation plug-in (aladdin_table.py).       *)
(*                                                                         *)
(* The plug-in is an object with two interface methods,                    *)
(* primitive_action_supported and estimate_energy.  A state of the model   *)
(* is the estimator object, the CSV reference tables on disk, and the last *)
(* call made on the estimator: the request handed in, the request object   *)
(* as the call left it, the lines the call printed, the table lookups the  *)
(* call made and the way the call ended (a returned value or a raised      *)
(* exception).                                                             *)
(*                                                                         *)
(* Numbers: Python floats are modelled as exact rationals [n, d] in lowest *)
(* terms, so floating point rounding is not modelled.  Python strings that *)
(* the code only compares or concatenates are TLA+ strings; the text of a  *)
(* CSV field, which the code parses and compares with str(latency), is a   *)
(* sequence of one-character strings.                                      *)
(***************************************************************************)
EXTENDS Integers, Sequences, FiniteSets, TLC

VARIABLES estimator_name, supported_pc, files, call, interface, out, reads, ret

vars == <<estimator_name, supported_pc, files, call, interface, out, reads, ret>>

ALADDIN_ACCURACY == 70

-----------------------------------------------------------------------------
(* Exact rational arithmetic standing for Python's float arithmetic.       *)

Abs(i) == IF i < 0 THEN -i ELSE i

RECURSIVE GCD(_, _)
GCD(a, b) == IF b = 0 THEN a ELSE GCD(b, a % b)

Rat(n, d) ==
    LET g == GCD(Abs(n), Abs(d))
        s == IF d < 0 THEN -1 ELSE 1
    IN  [n |-> (s * n) \div g, d |-> (s * d) \div g]

RatAdd(a, b) == Rat(a.n * b.d + b.n * a.d, a.d * b.d)
RatSub(a, b) == Rat(a.n * b.d - b.n * a.d, a.d * b.d)
RatMul(a, b) == Rat(a.n * b.n, a.d * b.d)
RatDiv(a, b) == Rat(a.n * b.d, a.d * b.n)
RatLt(a, b)  == a.n * b.d < b.n * a.d
RatLe(a, b)  == a.n * b.d <= b.n * a.d

-----------------------------------------------------------------------------
(* Python values held in a request's attributes: an int, a float or a str. *)

PyInt(i)      == [t |-> "int",   n |-> i, d |-> 1, s |-> ""]
PyFloat(n, d) == [t |-> "float", n |-> Rat(n, d).n, d |-> Rat(n, d).d, s |-> ""]
PyStr(s)      == [t |-> "str",   n |-> 0, d |-> 1, s |-> s]

IsNumber(v) == v.t \in {"int", "float"}
Num(v)      == [n |-> v.n, d |-> v.d]

\* v == i for an int literal i: a number of the same value, never a str
EqInt(v, i) == IsNumber(v) /\ v.n = i /\ v.d = 1
\* v == s for a str literal s
EqStr(v, s) == v.t = "str" /\ v.s = s

\* math.ceil of a number: the least integer not below it
Ceil(v) == -((-v.n) \div v.d)

\* str() of an int: its decimal digits, with a leading "-" when negative
Digit(i) == CASE i = 0 -> "0" [] i = 1 -> "1" [] i = 2 -> "2" [] i = 3 -> "3"
              [] i = 4 -> "4" [] i = 5 -> "5" [] i = 6 -> "6" [] i = 7 -> "7"
              [] i = 8 -> "8" [] i = 9 -> "9"

RECURSIVE StrNat(_)
StrNat(i) == IF i < 10 THEN <<Digit(i)>> ELSE StrNat(i \div 10) \o <<Digit(i % 10)>>

Str(i) == IF i < 0 THEN <<"-">> \o StrNat(-i) ELSE StrNat(i)

\* float() of a CSV field written as digits with at most one decimal point
DigitValue(c) == CASE c = "0" -> 0 [] c = "1" -> 1 [] c = "2" -> 2 [] c = "3" -> 3
                   [] c = "4" -> 4 [] c = "5" -> 5 [] c = "6" -> 6 [] c = "7" -> 7
                   [] c = "8" -> 8 [] c = "9" -> 9

RECURSIVE Pow10(_)
Pow10(k) == IF k = 0 THEN 1 ELSE 10 * Pow10(k - 1)

\* the number written by the first k characters of s, the point left out
RECURSIVE DigitsValue(_, _)
DigitsValue(s, k) ==
    IF k = 0 THEN 0
    ELSE IF s[k] = "." THEN DigitsValue(s, k - 1)
    ELSE 10 * DigitsValue(s, k - 1) + DigitValue(s[k])

Float(s) ==
    LET dots   == {i \in 1..Len(s) : s[i] = "."}
        places == IF dots = {} THEN 0 ELSE Len(s) - (CHOOSE i \in dots : TRUE)
    IN  Rat(DigitsValue(s, Len(s)), Pow10(places))

-----------------------------------------------------------------------------
(* The way a call ends: a returned number or a raised exception.           *)

Return(r) == [kind |-> "return", n |-> r.n, d |-> r.d, exc |-> ""]
Raise(e)  == [kind |-> "raise",  n |-> 0,   d |-> 1,   exc |-> e]

Returned(r) == r.kind = "return"
Value(r)    == [n |-> r.n, d |-> r.d]

\* What a method did: how it ended, what it printed, which table rows it
\* asked for (file path and the latency key compared with each row).
Outcome(r, o, rd) == [ret |-> r, out |-> o, reads |-> rd]

-----------------------------------------------------------------------------
(* Requests.                                                               *)

Absent == [t |-> "absent", n |-> 0, d |-> 1, s |-> ""]

AttributeNames == {"technology", "latency", "datawidth", "width", "num"}

\* the attributes dictionary: only the names that are given a value are keys
Attributes(technology, latency, datawidth, width, num) ==
    LET given == [k \in AttributeNames |->
                    CASE k = "technology" -> technology
                      [] k = "latency"    -> latency
                      [] k = "datawidth"  -> datawidth
                      [] k = "width"      -> width
                      [] k = "num"        -> num]
    IN  [k \in {a \in AttributeNames : given[a] # Absent} |-> given[k]]

Interface(class_name, attributes, action_name) ==
    [class_name |-> class_name, attributes |-> attributes,
     action_name |-> action_name, arguments |-> <<>>]

-----------------------------------------------------------------------------
(* The reference tables: one CSV file per table, a sequence of rows.       *)

Paths == {"data/reg.csv", "data/adder.csv", "data/fp_sp_adder.csv",
          "data/fp_dp_adder.csv", "data/multiplier.csv",
          "data/fp_sp_multiplier.csv", "data/fp_dp_multiplier.csv",
          "data/bitwise.csv"}

\* a row as csv.DictReader hands it over: the field under each column name
Row(latency, idle, dynamic) ==
    [column \in {"latency(ns)", "idle energy(pJ)", "dynamic energy(pJ)"} |->
        CASE column = "latency(ns)" -> latency
          [] column = "idle energy(pJ)" -> idle
          [] column = "dynamic energy(pJ)" -> dynamic]

\* a number for each file, used to give every file its own energies
FileNo(path) ==
    CASE path = "data/reg.csv" -> 1
      [] path = "data/adder.csv" -> 2
      [] path = "data/fp_sp_adder.csv" -> 3
      [] path = "data/fp_dp_adder.csv" -> 4
      [] path = "data/multiplier.csv" -> 5
      [] path = "data/fp_sp_multiplier.csv" -> 6
      [] path = "data/fp_dp_multiplier.csv" -> 7
      [] path = "data/bitwise.csv" -> 8

\* a table with one row per key; the row for the i-th key of file f has the
\* idle energy 0.fi and the dynamic energy f.i
Table(path, keys) ==
    [i \in 1..Len(keys) |->
        Row(keys[i], <<"0", ".", Digit(FileNo(path)), Digit(i)>>,
                     <<Digit(FileNo(path)), ".", Digit(i)>>)]

\* the latencies Aladdin characterises: 1 to 6 and 10 ns
AladdinKeys == << <<"1">>, <<"2">>, <<"3">>, <<"4">>, <<"5">>, <<"6">>, <<"1", "0">> >>

\* tables holding only the 6 and 10 ns rows
SparseKeys == << <<"6">>, <<"1", "0">> >>

TableSets == {[p \in Paths |-> Table(p, AladdinKeys)], [p \in Paths |-> Table(p, SparseKeys)]}

-----------------------------------------------------------------------------
(* AladdinTable                                                            *)

\* 'x in self.supported_pc' on the list
InList(x, list) == \E i \in 1..Len(list) : list[i] = x

\* primitive_action_supported without the class membership test
primitive_action_supported_any_class(request) ==
    LET warn == IF "technology" \notin DOMAIN request.attributes
                THEN <<"ALADDIN WARN: no technology specified in the request, cannot perform estimation">>
                ELSE <<>>
    IN  IF "technology" \notin DOMAIN request.attributes
        THEN Outcome(Raise("KeyError"), warn, <<>>)
        ELSE LET technology == request.attributes["technology"]
             IN  IF EqInt(technology, 40) \/ EqStr(technology, "40")
                        \/ EqStr(technology, "40nm")
                 THEN Outcome(Return(Rat(ALADDIN_ACCURACY, 1)), warn, <<>>)
                 ELSE Outcome(Return(Rat(0, 1)), warn, <<>>)

primitive_action_supported(request) ==
    LET warn == IF "technology" \notin DOMAIN request.attributes
                THEN <<"ALADDIN WARN: no technology specified in the request, cannot perform estimation">>
                ELSE <<>>
        class_name == request.class_name
    IN  IF "technology" \notin DOMAIN request.attributes
        THEN Outcome(Raise("KeyError"), warn, <<>>)
        ELSE LET technology == request.attributes["technology"]
             IN  IF (EqInt(technology, 40) \/ EqStr(technology, "40")
                        \/ EqStr(technology, "40nm"))
                    /\ InList(class_name, supported_pc)
                 THEN Outcome(Return(Rat(ALADDIN_ACCURACY, 1)), warn, <<>>)
                 ELSE Outcome(Return(Rat(0, 1)), warn, <<>>)

\* the latency attribute, 5 when the request has none
LatencyOf(request) ==
    IF "latency" \in DOMAIN request.attributes
    THEN request.attributes["latency"] ELSE PyInt(5)

\* the snapping with its two tests in the other order
Discretize_tests_swapped(latency) ==
    LET c == Ceil(latency)
    IN  IF c > 6 THEN 6
        ELSE IF c > 10 THEN 10
        ELSE c

\* math.ceil, then the two snapping branches
Discretize(latency) ==
    LET c == Ceil(latency)
    IN  IF c > 10 THEN 10
        ELSE IF c > 6 THEN 6
        ELSE c

\* the column read from the matching row
ActionColumn(request) ==
    IF request.action_name = "idle" THEN "idle energy(pJ)" ELSE "dynamic energy(pJ)"

\* the scan of the file: the index of the first row whose latency field
\* is the key, 0 when the loop ends without one
FirstMatch(csv_file_path, key) ==
    LET rows == files[csv_file_path]
        hits == {i \in 1..Len(rows) : rows[i]["latency(ns)"] = key}
    IN  IF hits = {} THEN 0 ELSE CHOOSE i \in hits : \A j \in hits : i <= j

\* the lookup with energy preset to 0 before the scan
query_csv_using_latency_preset(request, csv_file_path) ==
    LET latency     == Discretize(LatencyOf(request))
        action_name == ActionColumn(request)
        key         == Str(latency)
        hit         == FirstMatch(csv_file_path, key)
        rd          == <<[path |-> csv_file_path, key |-> key]>>
    IN  IF hit = 0
        THEN Outcome(Return(Rat(0, 1)), <<>>, rd)
        ELSE Outcome(Return(Float(files[csv_file_path][hit][action_name])), <<>>, rd)

query_csv_using_latency(request, csv_file_path) ==
    LET latency     == Discretize(LatencyOf(request))
        action_name == ActionColumn(request)
        key         == Str(latency)
        hit         == FirstMatch(csv_file_path, key)
        rd          == <<[path |-> csv_file_path, key |-> key]>>
    IN  IF hit = 0
        THEN Outcome(Raise("UnboundLocalError"), <<>>, rd)
        ELSE Outcome(Return(Float(files[csv_file_path][hit][action_name])), <<>>, rd)

\* interface['attributes'][name]: the value, or a KeyError
HasAttribute(request, name) == name \in DOMAIN request.attributes

\* accelergy.helper_functions.oneD_linear_interpolation: the line through
\* the two known points, evaluated at desired_x
oneD_linear_interpolation(desired_x, known) ==
    LET slope == RatDiv(RatSub(known[2].y, known[1].y), RatSub(known[2].x, known[1].x))
    IN  Return(RatAdd(RatMul(slope, RatSub(desired_x, known[1].x)), known[1].y))

\* helper function oneD_quadratic_interpolation
oneD_quadratic_interpolation(desired_x, known) ==
    IF RatLt(known[2].x, known[1].x)
    THEN Raise("IndexError")
    ELSE IF known[2].x = known[1].x
    THEN Raise("ZeroDivisionError")
    ELSE LET ordered_list == known
             slope == RatDiv(RatSub(known[2].y, known[1].y),
                             RatSub(known[2].x, known[1].x))
         IN  Return(RatAdd(RatMul(RatMul(slope, slope),
                                  RatSub(desired_x, ordered_list[1].x)),
                           ordered_list[1].y))

\* the two known points every width-interpolated rule passes
Known(csv_energy) == <<[x |-> Rat(0, 1), y |-> Rat(0, 1)], [x |-> Rat(32, 1), y |-> csv_energy]>>

\* the shape shared by the adder rules: look the table up, then interpolate
\* linearly in the datawidth
LinearRule(request, csv_file_path) ==
    LET q == query_csv_using_latency(request, csv_file_path)
    IN  IF ~Returned(q.ret) THEN q
        ELSE IF ~HasAttribute(request, "datawidth")
        THEN Outcome(Raise("KeyError"), q.out, q.reads)
        ELSE Outcome(oneD_linear_interpolation(Num(request.attributes["datawidth"]),
                                               Known(Value(q.ret))),
                     q.out, q.reads)

\* the shape shared by the multiplier rules
QuadraticRule(request, csv_file_path) ==
    LET q == query_csv_using_latency(request, csv_file_path)
    IN  IF ~Returned(q.ret) THEN q
        ELSE IF ~HasAttribute(request, "datawidth")
        THEN Outcome(Raise("KeyError"), q.out, q.reads)
        ELSE Outcome(oneD_quadratic_interpolation(Num(request.attributes["datawidth"]),
                                                  Known(Value(q.ret))),
                     q.out, q.reads)

\* the shape shared by the mac rules: the first rule, then the second, then
\* the sum; an exception in either ends the call
SumRule(first, second) ==
    IF ~Returned(first.ret) THEN first
    ELSE IF ~Returned(second.ret)
    THEN Outcome(second.ret, first.out \o second.out, first.reads \o second.reads)
    ELSE Outcome(Return(RatAdd(Value(first.ret), Value(second.ret))),
                 first.out \o second.out, first.reads \o second.reads)

regFile_estimate_energy(request) ==
    IF ~HasAttribute(request, "width")
    THEN Outcome(Raise("KeyError"), <<>>, <<>>)
    ELSE LET width == Num(request.attributes["width"])
             q     == query_csv_using_latency(request, "data/reg.csv")
         IN  IF ~Returned(q.ret) THEN q
             ELSE Outcome(Return(RatMul(Value(q.ret), width)), q.out, q.reads)

adder_estimate_energy(request) == LinearRule(request, "data/adder.csv")

fp32adder_estimate_energy(request) == LinearRule(request, "data/fp_sp_adder.csv")

fp64adder_estimate_energy(request) == LinearRule(request, "data/fp_dp_adder.csv")

multiplier_estimate_energy(request) == QuadraticRule(request, "data/multiplier.csv")

fp32multiplier_estimate_energy(request) == QuadraticRule(request, "data/fp_sp_multiplier.csv")

fp64multiplier_estimate_energy(request) == QuadraticRule(request, "data/fp_dp_multiplier.csv")

mac_estimate_energy(request) ==
    SumRule(adder_estimate_energy(request), multiplier_estimate_energy(request))

\* the single precision mac reading the double precision adder table
fp32mac_estimate_energy_dp_adder(request) ==
    SumRule(fp64adder_estimate_energy(request), fp32multiplier_estimate_energy(request))

fp32mac_estimate_energy(request) ==
    SumRule(fp32adder_estimate_energy(request), fp32multiplier_estimate_energy(request))

fp64mac_estimate_energy(request) ==
    SumRule(fp64adder_estimate_energy(request), fp64multiplier_estimate_energy(request))

bitwise_estimate_energy(request) ==
    LET q == query_csv_using_latency(request, "data/bitwise.csv")
    IN  IF ~Returned(q.ret) THEN q
        ELSE IF ~HasAttribute(request, "num")
        THEN Outcome(Raise("KeyError"), q.out, q.reads)
        ELSE Outcome(Return(RatMul(Value(q.ret), Num(request.attributes["num"]))),
                     q.out, q.reads)

\* the attributes of an AladdinTable object whose name ends in _estimate_energy
EstimateMethods ==
    {"regFile_estimate_energy", "mac_estimate_energy", "fp32mac_estimate_energy",
     "fp64mac_estimate_energy", "adder_estimate_energy", "fp32adder_estimate_energy",
     "fp64adder_estimate_energy", "multiplier_estimate_energy",
     "fp32multiplier_estimate_energy", "fp64multiplier_estimate_energy",
     "bitwise_estimate_energy"}

\* getattr(self, query_function_name)(interface)
CallMethod(query_function_name, request) ==
    CASE query_function_name = "regFile_estimate_energy" -> regFile_estimate_energy(request)
      [] query_function_name = "mac_estimate_energy" -> mac_estimate_energy(request)
      [] query_function_name = "fp32mac_estimate_energy" -> fp32mac_estimate_energy(request)
      [] query_function_name = "fp64mac_estimate_energy" -> fp64mac_estimate_energy(request)
      [] query_function_name = "adder_estimate_energy" -> adder_estimate_energy(request)
      [] query_function_name = "fp32adder_estimate_energy" -> fp32adder_estimate_energy(request)
      [] query_function_name = "fp64adder_estimate_energy" -> fp64adder_estimate_energy(request)
      [] query_function_name = "multiplier_estimate_energy" -> multiplier_estimate_energy(request)
      [] query_function_name = "fp32multiplier_estimate_energy" -> fp32multiplier_estimate_energy(request)
      [] query_function_name = "fp64multiplier_estimate_energy" -> fp64multiplier_estimate_energy(request)
      [] query_function_name = "bitwise_estimate_energy" -> bitwise_estimate_energy(request)

estimate_energy(request) ==
    LET class_name          == request.class_name
        query_function_name == class_name \o "_estimate_energy"
    IN  IF query_function_name \notin EstimateMethods
        THEN Outcome(Raise("AttributeError"), <<>>, <<>>)
        ELSE CallMethod(query_function_name, request)

-----------------------------------------------------------------------------
(* The requests the host makes.                                            *)

MaxLatency == 11

SupportedClasses == {"regfile", "bitwise", "adder", "multiplier", "mac",
                     "fp32adder", "fp32multiplier", "fp32mac",
                     "fp64adder", "fp64multiplier", "fp64mac"}

\* class names the host may also ask about
OtherClasses == {"regFile", "divider"}

ClassNames == SupportedClasses \cup OtherClasses

Technologies == {Absent, PyInt(40), PyStr("40"), PyStr("40nm"), PyInt(45), PyStr("45nm")}

\* latencies on both sides of the snapping points 6 and 10: whole ones, and
\* three that math.ceil has to round up (0.5, 6.5 and 10.5)
Latencies ==
    {PyInt(i) : i \in 5..MaxLatency} \cup {PyFloat(1, 2), PyFloat(13, 2), PyFloat(21, 2)}

ActionNames == {"idle", "read"}

DataWidths == {16, 32}

\* the attributes of a request: the size attribute the class is described
\* by, the technology and the latency
SizedAttributes(class_name, technology, latency, datawidths) ==
    CASE class_name \in {"regfile", "regFile"} ->
            {Attributes(technology, latency, Absent, PyInt(8), Absent)}
      [] class_name = "bitwise" ->
            {Attributes(technology, latency, Absent, Absent, PyInt(4))}
      [] OTHER ->
            {Attributes(technology, latency, PyInt(w), Absent, Absent) : w \in datawidths}

\* capability queries: every class with every technology
SupportRequests ==
    UNION {{Interface(c, a, "read") : a \in SizedAttributes(c, t, Absent, {32})} :
            <<c, t>> \in ClassNames \X Technologies}

\* energy queries: every class, latency and action; estimate_energy never
\* reads the technology, which is the supported one here
EnergyRequests ==
    UNION {{Interface(x[1], a, x[3]) : a \in SizedAttributes(x[1], PyInt(40), x[2], DataWidths)} :
            x \in ClassNames \X (Latencies \cup {Absent}) \X ActionNames}

-----------------------------------------------------------------------------
(* The state machine.                                                      *)

NoRequest == Interface("", Attributes(Absent, Absent, Absent, Absent, Absent), "")

NoReturn == [kind |-> "none", n |-> 0, d |-> 1, exc |-> ""]

\* AladdinTable(): the estimator as __init__ leaves it, over some tables
Init ==
    /\ estimator_name = "Aladdin_table"
    /\ supported_pc = <<"regfile", "bitwise", "adder", "multiplier", "mac",
                        "fp32adder", "fp32multiplier", "fp32mac",
                        "fp64adder", "fp64multiplier", "fp64mac">>
    /\ files \in TableSets
    /\ call = [op |-> "__init__", request |-> NoRequest]
    /\ interface = NoRequest
    /\ out = <<>>
    /\ reads = <<>>
    /\ ret = NoReturn

\* the host calls primitive_action_supported(request)
PrimitiveActionSupported(request) ==
    \E o \in {primitive_action_supported(request)} :
        /\ call' = [op |-> "primitive_action_supported", request |-> request]
        /\ interface' = request
        /\ out' = o.out
        /\ reads' = o.reads
        /\ ret' = o.ret
        /\ UNCHANGED <<estimator_name, supported_pc, files>>

\* estimate_energy storing the discretized latency in the request
EstimateEnergy_stores_latency(request) ==
    \E o \in {estimate_energy(request)} :
        /\ call' = [op |-> "estimate_energy", request |-> request]
        /\ interface' = [request EXCEPT !.attributes =
                            [k \in DOMAIN @ \cup {"latency"} |->
                                IF k = "latency"
                                THEN PyInt(Discretize(LatencyOf(request)))
                                ELSE @[k]]]
        /\ out' = o.out
        /\ reads' = o.reads
        /\ ret' = o.ret
        /\ UNCHANGED <<estimator_name, supported_pc, files>>

\* the host calls estimate_energy(request)
EstimateEnergy(request) ==
    \E o \in {estimate_energy(request)} :
        /\ call' = [op |-> "estimate_energy", request |-> request]
        /\ interface' = request
        /\ out' = o.out
        /\ reads' = o.reads
        /\ ret' = o.ret
        /\ UNCHANGED <<estimator_name, supported_pc, files>>

Next ==
    \/ \E request \in SupportRequests : PrimitiveActionSupported(request)
    \/ \E request \in EnergyRequests : EstimateEnergy(request)

Spec == Init /\ [][Next]_vars

TypeOK ==
    /\ call.op \in {"__init__", "primitive_action_supported", "estimate_energy"}
    /\ ret.kind \in {"none", "return", "raise"}

-----------------------------------------------------------------------------
(* Properties.                                                             *)

Request == call.request

IsSupportQuery == call.op = "primitive_action_supported"

IsEnergyQuery == call.op = "estimate_energy"

HasTechnology == "technology" \in DOMAIN Request.attributes

\* the three spellings of the supported technology
FortySpellings == {PyInt(40), PyStr("40"), PyStr("40nm")}

\* C1: a capability query on a request that has a technology returns the
\* accuracy constant when the technology is 40, "40" or "40nm" and the class
\* is a supported one, and returns 0 in every other case.
C1_CapabilityScore ==
    (IsSupportQuery /\ HasTechnology) =>
        ret = IF Request.attributes["technology"] \in FortySpellings
                 /\ Request.class_name \in SupportedClasses
              THEN Return(Rat(70, 1))
              ELSE Return(Rat(0, 1))

C1_Witness ==
    /\ IsSupportQuery
    /\ HasTechnology
    /\ Request.attributes["technology"] = PyStr("40nm")
    /\ Request.class_name = "fp64mac"
    /\ ret = Return(Rat(70, 1))

\* C2: a capability query on a request without a technology prints the
\* warning and then returns 0; it does not raise.
C2_MissingTechnologyReturnsZero ==
    (IsSupportQuery /\ ~HasTechnology) =>
        /\ Len(out) = 1
        /\ ret = Return(Rat(0, 1))

\* the score primitive_action_supported gives the request of the last call
Score == primitive_action_supported(Request).ret

\* C3: for every request that primitive_action_supported gives a positive
\* score, estimate_energy finds the rule of the class: it never ends in a
\* 'rule not found' failure.
C3_SupportedClassHasRule ==
    (IsEnergyQuery /\ HasTechnology /\ Returned(Score) /\ Score.n > 0) =>
        ~(ret.kind = "raise" /\ ret.exc = "AttributeError")

\* the latency the last request asks for, 5 when it names none
AskedLatency == Num(LatencyOf(Request))

\* the least whole number not below the rational r, found by search
Ceiling(r) ==
    CHOOSE k \in -1..(MaxLatency + 1) :
        /\ RatLe(r, Rat(k, 1))
        /\ RatLt(Rat(k - 1, 1), r)

\* the call looked a table up
LookedUp == IsEnergyQuery /\ reads # <<>>

Reference ==
    LET rows == files[reads[1].path]
        i    == CHOOSE j \in 1..Len(rows) :
                    /\ rows[j]["latency(ns)"] = reads[1].key
                    /\ \A k \in 1..(j - 1) : rows[k]["latency(ns)"] # reads[1].key
    IN  Float(rows[i][ActionColumn(Request)])

MultiplierClasses == {"multiplier", "fp32multiplier", "fp64multiplier"}

\* C5: a multiplier rule asked for datawidth 32 returns exactly the
\* reference energy it looked up.
C5_QuadraticAtAnchor ==
    (/\ IsEnergyQuery
     /\ Request.class_name \in MultiplierClasses
     /\ Request.attributes["datawidth"] = PyInt(32)
     /\ Returned(ret)) =>
        Value(ret) = Reference

MacClasses == {"mac", "fp32mac", "fp64mac"}

\* the adder rule and the multiplier rule matching a mac class
MatchingAdder(class_name, request) ==
    CASE class_name = "mac"     -> adder_estimate_energy(request)
      [] class_name = "fp32mac" -> fp32adder_estimate_energy(request)
      [] class_name = "fp64mac" -> fp64adder_estimate_energy(request)

MatchingMultiplier(class_name, request) ==
    CASE class_name = "mac"     -> multiplier_estimate_energy(request)
      [] class_name = "fp32mac" -> fp32multiplier_estimate_energy(request)
      [] class_name = "fp64mac" -> fp64multiplier_estimate_energy(request)

\* C6: the energy estimate_energy returns for a mac class is the energy of
\* the matching adder rule plus the energy of the matching multiplier rule,
\* both on the same request.
C6_MacIsSum ==
    (IsEnergyQuery /\ Request.class_name \in MacClasses /\ Returned(ret)) =>
        LET a == MatchingAdder(Request.class_name, Request).ret
            m == MatchingMultiplier(Request.class_name, Request).ret
        IN  /\ Returned(a)
            /\ Returned(m)
            /\ Value(ret) = RatAdd(Value(a), Value(m))

C6_Witness ==
    /\ IsEnergyQuery
    /\ Request.class_name = "fp32mac"
    /\ Request.attributes["datawidth"] = PyInt(16)
    /\ Returned(ret)
    /\ ret.n > 0
    /\ Len(reads) = 2

\* the dynamic energy of the first 10 ns row of the register table
RegRow10Dynamic ==
    LET rows == files["data/reg.csv"]
        i    == CHOOSE j \in 1..Len(rows) :
                    /\ rows[j]["latency(ns)"] = <<"1", "0">>
                    /\ \A k \in 1..(j - 1) : rows[k]["latency(ns)"] # <<"1", "0">>
    IN  Float(rows[i]["dynamic energy(pJ)"])

\* C7: for class 'regfile' at a supported technology, with width w, a
\* latency above 10 and an action other than idle, estimate_energy returns
\* w times the dynamic energy of the 10 ns row of the register table.
C7_RegfileAbove10 ==
    (/\ IsEnergyQuery
     /\ Request.class_name = "regfile"
     /\ HasTechnology
     /\ Request.attributes["technology"] \in FortySpellings
     /\ "width" \in DOMAIN Request.attributes
     /\ RatLt(Rat(10, 1), AskedLatency)
     /\ Request.action_name # "idle") =>
        /\ Returned(ret)
        /\ Value(ret) = RatMul(Num(Request.attributes["width"]), RegRow10Dynamic)

\* C8: the discretization is idempotent and monotone: on the latency x of
\* a lookup, discretize(discretize(x)) = discretize(x), and for every
\* latency y with x <= y, discretize(x) <= discretize(y).
C8_IdempotentMonotone ==
    LookedUp =>
        LET x == LatencyOf(Request)
        IN  /\ Discretize(PyInt(Discretize(x))) = Discretize(x)
            /\ \A y \in Latencies :
                    RatLe(Num(x), Num(y)) => Discretize(x) <= Discretize(y)

\* a lookup of the call found no row with its key
Missed ==
    \E i \in DOMAIN reads :
        \A j \in DOMAIN files[reads[i].path] :
            files[reads[i].path][j]["latency(ns)"] # reads[i].key

\* C9: when the table has no row for the key of a lookup, the call ends in
\* a failure passed on to the caller; it returns no energy.
C9_MissRaises ==
    (LookedUp /\ Missed) => (ret.kind = "raise" /\ ret.exc = "UnboundLocalError")

C9_Witness ==
    /\ LookedUp
    /\ Missed
    /\ Request.class_name = "mac"
    /\ reads[1] = [path |-> "data/adder.csv", key |-> <<"5">>]
    /\ ret = Raise("UnboundLocalError")

\* C10: a call leaves the estimator's name, its supported classes, the
\* tables and the request as they were, and the same call made again ends
\* and prints the same way.
C10_Frame ==
    [][/\ estimator_name' = estimator_name
       /\ supported_pc' = supported_pc
       /\ files' = files
       /\ interface' = call'.request
       /\ (call' = call => (ret' = ret /\ out' = out /\ reads' = reads))]_vars

C10_Witness ==
    /\ IsEnergyQuery
    /\ "latency" \in DOMAIN Request.attributes
    /\ Request.attributes["latency"] = PyInt(11)
    /\ interface = Request
    /\ Returned(ret)
    /\ estimator_name = "Aladdin_table"
    /\ Len(supported_pc) = 11

====
